---- MODULE Spec2Model ----
(***************************************************************************)
(* A model of the NYC 311 ingestion script (ingest_311.py): the retrying   *)
(* fetcher get_with_retry and the paginated ingestion loop of main(); of   *)
(* the transform (process_311.py): load_raw, engineer, the schema guard    *)
(* and the two writes; and of precompute_summaries.py.                     *)
(*                                                                         *)
(* Conventions.                                                            *)
(*  - A Python value that may be None is a sequence: <<>> is None (or any  *)
(*    falsy text such as ''), <<v>> is the value v.                        *)
(*  - A date is its day ordinal (date.toordinal()); the text of a date on  *)
(*    the command line or in the environment is the ordinal of the date it *)
(*    spells, or BadText when strptime rejects it.                         *)
(*  - The remote dataset holds T rows matching the date filter; a page     *)
(*    request (limit, offset) returns the rows [offset, offset+limit) that *)
(*    exist, a count request returns T.                                    *)
(***************************************************************************)
EXTENDS Integers, Sequences, FiniteSets, TLC

VARIABLES
    \* ---- inputs of one run: argv and the environment (get_args, os.getenv)
    cli_since, env_since, cli_until, env_until, cli_years, env_years, now,
    limit, page_size, max_retries, dry_run,
    \* ---- the remote dataset
    T,
    \* ---- main()'s locals
    pc, since_date, until_date, client, total_to_fetch,
    offset, page_idx, written, this_limit, rows,
    \* ---- get_with_retry's locals and its caller's continuation
    attempt, backoff, req, ret_to,
    \* ---- what the run has done (observations)
    calls, warnings, sleeps, requests, pages_written, sent,
    \* ---- the output directory, shared by all runs, and the run counter
    out_dir, run,
    \* ---- the output directory as the current run found it, and what the
    \* ---- run with the same arguments but the other --dry-run setting did
    start_dir, twin,
    \* ---- process_311.py: the raw table and its columns, engineer's result,
    \* ---- the published datasets, and the precomputed summaries
    raw, raw_columns, clean, tpc, consolidated, partitions, summaries, truns,
    \* ---- whether pyarrow's dataset writer works in this environment
    pyarrow

inputs  == <<cli_since, env_since, cli_until, env_until, cli_years, env_years,
             now, limit, page_size, max_retries, dry_run, T>>
locals  == <<since_date, until_date, client, total_to_fetch,
             offset, page_idx, written, this_limit, rows>>
retry   == <<attempt, backoff, req, ret_to>>
observed == <<calls, warnings, sleeps, requests, pages_written, sent>>
tvars   == <<raw, raw_columns, clean, tpc, consolidated, partitions,
             summaries, truns, pyarrow>>
ivars   == <<inputs, locals, retry, observed, pc, out_dir, run,
             start_dir, twin>>
vars    == <<ivars, tvars>>

None == <<>>
Some(v) == <<v>>
IsNone(x) == x = <<>>
Val(x) == x[1]

Min(a, b) == IF a <= b THEN a ELSE b
Max(a, b) == IF a >= b THEN a ELSE b

\* ------------------------------------------------------------------ bounds
\* SpecRetry: max_retries ranges over -1 .. MaxRetries.
MaxRetries == 8
\* Spec and SpecArchive: the remote holds 0 .. MaxRows rows.
MaxRows == 3
\* Spec: max_retries ranges over 0 .. RunMaxRetries.
RunMaxRetries == 2

\* The transform: rows in the raw directory, runs of process_311.py.
MaxRawRows == 2
MaxTRuns == 2
\* SpecArchive: the number of ingestion runs into the same directory.
MaxRuns == 2

\* ------------------------------------------------------- program constants
\* argparse default of --max-retries and of get_with_retry's parameter.
DefaultMaxRetries == 5
\* os.getenv("YEARS_BACK", "5")
DefaultYearsBack == 5
\* timedelta(days=365 * YEARS_BACK)
DaysPerYear == 365
\* min(backoff * 2, 30)
BackoffCap == 30
\* backoff = 1.0
BackoffStart == 1
\* {page_idx:05d}
PadWidth == 5

\* ------------------------------------------------------------ the remote
\* client.get(dataset, **kwargs) when it answers: the number of rows of a
\* page request, the count of a count request.
ClientGet(r, t) ==
    IF r.kind = "count" THEN t
    ELSE Min(r.limit, Max(t - r.offset, 0))

\* The keyword arguments main() gives get_with_retry with the count query
\* (lines 131-132) and with a page query (lines 155-164).
CountKwargs == {"select", "where", "max_retries"}
PageKwargs == {"where", "order", "select", "limit", "offset", "max_retries"}

CountRequest ==
    [kind |-> "count", limit |-> 0, offset |-> 0, kwargs |-> CountKwargs]
PageRequest(l, o) ==
    [kind |-> "page", limit |-> l, offset |-> o, kwargs |-> PageKwargs]

\* def get_with_retry(client, dataset, max_retries=5, **kwargs): the named
\* parameter takes max_retries, client.get(dataset, **kwargs) gets the rest.
ForwardedWithRetries(kw) == kw
Forwarded(kw) == kw \ {"max_retries"}

\* ------------------------------------------------------- get_with_retry
\* backoff = min(backoff * 2, 30)
NextBackoffNoCap(b) == b * 2
NextBackoff(b) == Min(b * 2, BackoffCap)

\* the call: backoff = 1.0, and the for loop's first value of attempt
get_with_retry_call(r, cont) ==
    /\ req' = r
    /\ ret_to' = cont
    /\ attempt' = 1
    /\ backoff' = BackoffStart
    /\ calls' = 0
    /\ warnings' = 0
    /\ sleeps' = <<>>
    /\ UNCHANGED sent
    /\ pc' = "gwr"

\* range(1, max_retries + 1) is exhausted: the function falls off its end
\* and returns None.
RangeExhausted(a, m) == a > m

get_with_retry_fall_through ==
    /\ pc = "gwr"
    /\ RangeExhausted(attempt, max_retries)
    /\ rows' = None
    /\ pc' = ret_to
    /\ UNCHANGED <<inputs, since_date, until_date, client, total_to_fetch,
                   offset, page_idx, written, this_limit,
                   retry, observed, out_dir, run, start_dir, twin, tvars>>

\* client.get answers: return its value.
get_with_retry_success ==
    /\ pc = "gwr"
    /\ ~RangeExhausted(attempt, max_retries)
    /\ calls' = calls + 1
    /\ sent' = sent \cup Forwarded(req.kwargs)
    /\ rows' = Some(ClientGet(req, T))
    /\ pc' = ret_to
    /\ UNCHANGED <<inputs, since_date, until_date, client, total_to_fetch,
                   offset, page_idx, written, this_limit,
                   retry, warnings, sleeps, requests, pages_written,
                   out_dir, run, start_dir, twin, tvars>>

\* attempt == max_retries: the last attempt of the loop
LastAttempt(a, m) == a = m

\* client.get raises RequestException on an attempt that is not the last:
\* warn, sleep(backoff), double the backoff, next attempt.
get_with_retry_fail_retry ==
    /\ pc = "gwr"
    /\ ~RangeExhausted(attempt, max_retries)
    /\ ~LastAttempt(attempt, max_retries)
    /\ calls' = calls + 1
    /\ sent' = sent \cup Forwarded(req.kwargs)
    /\ warnings' = warnings + 1
    /\ sleeps' = Append(sleeps, backoff)
    /\ backoff' = NextBackoff(backoff)
    /\ attempt' = attempt + 1
    /\ UNCHANGED <<inputs, locals, req, ret_to, requests, pages_written,
                   pc, out_dir, run, start_dir, twin, tvars>>

\* client.get raises RequestException on the last attempt: warn, log the
\* error, re-raise.
get_with_retry_fail_raise ==
    /\ pc = "gwr"
    /\ ~RangeExhausted(attempt, max_retries)
    /\ LastAttempt(attempt, max_retries)
    /\ calls' = calls + 1
    /\ sent' = sent \cup Forwarded(req.kwargs)
    /\ warnings' = warnings + 1
    /\ pc' = "raised"
    /\ UNCHANGED <<inputs, locals, retry, sleeps, requests, pages_written,
                   out_dir, run, start_dir, twin, tvars>>

\* client.get raises something that is no RequestException, and the
\* function logs a warning and sleeps before the exception leaves it.
get_with_retry_other_error_warned ==
    /\ pc = "gwr"
    /\ ~RangeExhausted(attempt, max_retries)
    /\ calls' = calls + 1
    /\ sent' = sent \cup Forwarded(req.kwargs)
    /\ warnings' = warnings + 1
    /\ sleeps' = Append(sleeps, backoff)
    /\ pc' = "error"
    /\ UNCHANGED <<inputs, locals, retry, requests,
                   pages_written, out_dir, run, start_dir, twin, tvars>>
\* client.get raises something that is no RequestException: the except
\* clause does not match and the exception leaves the function.
get_with_retry_other_error ==
    /\ pc = "gwr"
    /\ ~RangeExhausted(attempt, max_retries)
    /\ calls' = calls + 1
    /\ sent' = sent \cup Forwarded(req.kwargs)
    /\ pc' = "error"
    /\ UNCHANGED <<inputs, locals, retry, warnings, sleeps, requests,
                   pages_written, out_dir, run, start_dir, twin, tvars>>

get_with_retry ==
    \/ get_with_retry_fall_through
    \/ get_with_retry_success
    \/ get_with_retry_fail_retry
    \/ get_with_retry_fail_raise
    \/ get_with_retry_other_error

\* ------------------------------------------------------------- get_args
\* The text of a date that strptime(s, "%Y-%m-%d") rejects.
BadText == 0

\* --years: type=int, default=int(os.getenv("YEARS_BACK", "5"))
args_years(cli, env) ==
    IF ~IsNone(cli) THEN Val(cli)
    ELSE IF ~IsNone(env) THEN Val(env) ELSE DefaultYearsBack

\* ------------------------------------------------- main: the date range
\* YEARS_BACK = int(os.getenv("YEARS_BACK", "5"))
YEARS_BACK(env) == IF ~IsNone(env) THEN Val(env) ELSE DefaultYearsBack

\* (datetime.now() - timedelta(days=365 * YEARS_BACK)).date()
DefaultSince(nw, env) == nw - DaysPerYear * YEARS_BACK(env)

\* The text main() parses for a bound, None when it takes the default:
\* args.since if truthy, else os.getenv("SINCE_DATE") if truthy.
BoundTextEnvFirst(cli, env) ==
    IF ~IsNone(env) THEN env ELSE IF ~IsNone(cli) THEN cli ELSE None
BoundText(cli, env) ==
    IF ~IsNone(cli) THEN cli ELSE IF ~IsNone(env) THEN env ELSE None

\* _parse_date: the date, or ValueError
ParseFails(text) == Val(text) = BadText
_parse_date(text) == Val(text)

\* if since_date > until_date: raise SystemExit
RangeCheckOff(s, u) == FALSE
RangeInvalid(s, u) == s > u

\* main() from get_args() to the WHERE clause (lines 75-122): resolve and
\* parse since, then until, then validate the range.
main_resolve_dates ==
    /\ pc = "start"
    /\ LET st == BoundText(cli_since, env_since)
           ut == BoundText(cli_until, env_until)
           s  == IF IsNone(st) THEN DefaultSince(now, env_years)
                 ELSE _parse_date(st)
           u  == IF IsNone(ut) THEN now ELSE _parse_date(ut)
       IN  IF ~IsNone(st) /\ ParseFails(st)
           THEN /\ pc' = "value_error"
                /\ UNCHANGED <<since_date, until_date>>
           ELSE IF ~IsNone(ut) /\ ParseFails(ut)
           THEN /\ pc' = "value_error"
                /\ since_date' = Some(s)
                /\ UNCHANGED until_date
           ELSE /\ since_date' = Some(s)
                /\ until_date' = Some(u)
                /\ pc' = IF RangeInvalid(s, u) THEN "config_error"
                         ELSE "dates_ok"
    /\ UNCHANGED <<inputs, client, total_to_fetch, offset, page_idx, written,
                   this_limit, rows, retry, observed, out_dir, run, start_dir, twin, tvars>>

\* ------------------------------------------------ main: count and paging
\* `if args.limit:` -- None and 0 are falsy
LimitGiven(l) == ~IsNone(l) /\ Val(l) # 0

\* offset = 0; page_idx = 0; written = 0
loop_start ==
    /\ offset' = 0
    /\ page_idx' = 0
    /\ written' = 0
    /\ pc' = "loop"

\* client = Socrata(...); then either total_to_fetch = args.limit, or the
\* count query through get_with_retry (lines 124-133).
main_connect ==
    /\ pc = "dates_ok"
    /\ client' = TRUE
    /\ IF LimitGiven(limit)
       THEN /\ total_to_fetch' = Val(limit)
            /\ loop_start
            /\ UNCHANGED <<retry, observed>>
       ELSE /\ get_with_retry_call(CountRequest, "count_returned")
            /\ requests' = Append(requests, CountRequest)
            /\ UNCHANGED <<total_to_fetch, offset, page_idx, written,
                           pages_written>>
    /\ UNCHANGED <<inputs, since_date, until_date, this_limit, rows,
                   out_dir, run, start_dir, twin, tvars>>

\* total_to_fetch = int(count_res[0]["count_1"]) if count_res else 0
main_after_count ==
    /\ pc = "count_returned"
    /\ total_to_fetch' = IF IsNone(rows) THEN 0 ELSE Val(rows)
    /\ loop_start
    /\ UNCHANGED <<inputs, since_date, until_date, client, this_limit, rows,
                   retry, observed, out_dir, run, start_dir, twin, tvars>>

\* this_limit = page_size, or min(page_size, remaining) under args.limit
ThisLimit(ps, l, w) ==
    IF LimitGiven(l) THEN Min(ps, Val(l) - w) ELSE ps

\* The top of the while loop (lines 146-164): stop when the quota is used
\* up, else request the next page.
main_loop_top ==
    /\ pc = "loop"
    /\ IF LimitGiven(limit) /\ Val(limit) - written <= 0
       THEN /\ this_limit' = page_size
            /\ pc' = "done"
            /\ UNCHANGED <<retry, observed>>
       ELSE LET tl == ThisLimit(page_size, limit, written)
            IN  /\ this_limit' = tl
                /\ get_with_retry_call(PageRequest(tl, offset),
                                       "page_returned")
                /\ requests' = Append(requests, PageRequest(tl, offset))
                /\ UNCHANGED pages_written
    /\ UNCHANGED <<inputs, since_date, until_date, client, total_to_fetch,
                   offset, page_idx, written, rows, out_dir, run, start_dir, twin, tvars>>

\* The decimal digits of n, most significant first.
RECURSIVE Digits(_)
Digits(n) == IF n < 10 THEN <<n>> ELSE Append(Digits(n \div 10), n % 10)

\* f"{n:05d}": the digits, zero-padded on the left to PadWidth
Pad(n) ==
    LET d == Digits(n)
    IN  IF Len(d) >= PadWidth THEN d
        ELSE [i \in 1 .. PadWidth |->
                 IF i <= PadWidth - Len(d) THEN 0
                 ELSE d[i - (PadWidth - Len(d))]]

\* out_dir / f"nyc311_{since_tag}_{page_idx:05d}.parquet"
FileNameNoTag(tag, idx) == <<0>> \o Pad(idx)
FileName(tag, idx) == <<tag>> \o Pad(idx)

\* page_idx += 1
NextPageIdxStuck(i) == Max(i, 1)
NextPageIdx(i) == i + 1

\* offset += this_limit
NextOffsetByOne(o, tl) == o + 1
NextOffset(o, tl) == o + tl

\* df.to_parquet(out_path): the file is created or replaced.
WriteFileTruncating(dir, name, content) == [f \in {name} |-> content]
WriteFile(dir, name, content) ==
    [f \in DOMAIN dir \cup {name} |-> IF f = name THEN content ELSE dir[f]]

\* if args.dry_run: log only, else df.to_parquet
SkipWriteNever(dry) == FALSE
SkipWrite(dry) == dry

\* The rest of the loop body (lines 165-198), given the page's rows.
main_process_page ==
    /\ pc = "page_returned"
    /\ IF IsNone(rows) \/ Val(rows) = 0
       THEN /\ pc' = "done"
            /\ UNCHANGED <<offset, page_idx, written, pages_written, out_dir>>
       ELSE LET n    == Val(rows)
                idx  == NextPageIdx(page_idx)
                w    == written + n
                name == FileName(Val(since_date), idx)
            IN  /\ page_idx' = idx
                /\ written' = w
                /\ IF SkipWrite(dry_run)
                   THEN UNCHANGED <<out_dir, pages_written>>
                   ELSE /\ out_dir' = WriteFile(out_dir, name,
                               [since |-> Val(since_date),
                                offset |-> offset, rows |-> n])
                        /\ pages_written' = Append(pages_written,
                               [name |-> name, idx |-> idx, rows |-> n])
                /\ IF n < this_limit
                   THEN pc' = "done" /\ UNCHANGED offset
                   ELSE IF LimitGiven(limit) /\ w >= Val(limit)
                   THEN pc' = "done" /\ UNCHANGED offset
                   ELSE pc' = "loop" /\ offset' = NextOffset(offset, this_limit)
    /\ UNCHANGED <<inputs, since_date, until_date, client, total_to_fetch,
                   this_limit, rows, retry, calls, warnings, sleeps, requests,
                   sent, run, start_dir, twin, tvars>>

main ==
    \/ main_resolve_dates
    \/ main_connect
    \/ main_after_count
    \/ main_loop_top
    \/ main_process_page

\* The run is over: it returned, or an exception left main().
Finished == pc \in {"done", "config_error", "value_error", "raised", "error"}

\* ------------------------------------------------------ one ingestion run
\* Two dates of the command line or the environment, and the day of the run
\* (day ordinals; the default window starts 365 * 5 days before Now).
SampleDates == <<100, 1000>>
D1 == SampleDates[1]
D2 == SampleDates[2]
Now == 2 * D2

EmptyDir == [n \in {} |-> 0]

\* process_311.py has not run: nothing loaded, nothing published.
TransformIdle ==
    /\ raw = <<>>
    /\ raw_columns = {}
    /\ clean = <<>>
    /\ tpc = "idle"
    /\ consolidated = None
    /\ partitions = EmptyDir
    /\ summaries = None
    /\ truns = 0
    /\ pyarrow = TRUE

\* The first run into a fresh output directory.
FirstRun ==
    /\ out_dir = EmptyDir
    /\ start_dir = EmptyDir
    /\ twin = None
    /\ run = 1
    /\ TransformIdle

\* The state of a run before main() starts, given its inputs c.
StartOfRun(c) ==
    /\ cli_since = c.cli_since /\ env_since = c.env_since
    /\ cli_until = c.cli_until /\ env_until = c.env_until
    /\ cli_years = c.cli_years /\ env_years = c.env_years
    /\ now = c.now
    /\ limit = c.limit
    /\ page_size = c.page_size
    /\ max_retries = c.max_retries
    /\ dry_run = c.dry_run
    /\ T = c.T
    /\ pc = "start"
    /\ since_date = None /\ until_date = None
    /\ client = FALSE
    /\ total_to_fetch = 0
    /\ offset = 0 /\ page_idx = 0 /\ written = 0 /\ this_limit = 0
    /\ rows = None
    /\ attempt = 0
    /\ backoff = BackoffStart
    /\ req = CountRequest
    /\ ret_to = "none"
    /\ calls = 0 /\ warnings = 0 /\ sleeps = <<>>
    /\ requests = <<>> /\ pages_written = <<>>
    /\ sent = {}

\* Spec: one run; dates from the command line or the default, --limit
\* absent, negative, zero or positive, page sizes 1 and 2.
RunConfigs ==
    [cli_since : {None, Some(D1), Some(D2)}, env_since : {None},
     cli_until : {None, Some(D1), Some(D2)}, env_until : {None},
     cli_years : {None}, env_years : {None}, now : {Now},
     limit : {None} \cup {Some(l) : l \in -1 .. MaxRows + 1},
     page_size : {1, 2},
     max_retries : 0 .. RunMaxRetries,
     dry_run : BOOLEAN,
     T : 0 .. MaxRows]

Init ==
    /\ \E c \in RunConfigs : StartOfRun(c)
    /\ FirstRun

Next == main \/ get_with_retry

Spec == Init /\ [][Next]_vars

\* ------------------------------------- runs into the same output directory
\* SpecArchive: up to MaxRuns runs, one after the other (no concurrent
\* writers), each with its own arguments and its own remote row count, all
\* writing into the same out_dir.
ArchiveConfigs ==
    [cli_since : {Some(D1), Some(D2)}, env_since : {None},
     cli_until : {None}, env_until : {None},
     cli_years : {None}, env_years : {None}, now : {Now},
     limit : {None, Some(1), Some(3)},
     page_size : {1, 2},
     max_retries : {0, 2},
     dry_run : BOOLEAN,
     T : 0 .. MaxRows]

InitArchive ==
    /\ \E c \in ArchiveConfigs : StartOfRun(c)
    /\ FirstRun

\* The script is started again once the previous run is over.
NewRun ==
    /\ Finished
    /\ run < MaxRuns
    /\ run' = run + 1
    /\ \E c \in ArchiveConfigs :
          /\ cli_since' = c.cli_since /\ env_since' = c.env_since
          /\ cli_until' = c.cli_until /\ env_until' = c.env_until
          /\ cli_years' = c.cli_years /\ env_years' = c.env_years
          /\ now' = c.now
          /\ limit' = c.limit
          /\ page_size' = c.page_size
          /\ max_retries' = c.max_retries
          /\ dry_run' = c.dry_run
          /\ T' = c.T
    /\ pc' = "start"
    /\ since_date' = None /\ until_date' = None
    /\ client' = FALSE
    /\ total_to_fetch' = 0
    /\ offset' = 0 /\ page_idx' = 0 /\ written' = 0 /\ this_limit' = 0
    /\ rows' = None
    /\ attempt' = 0
    /\ backoff' = BackoffStart
    /\ req' = CountRequest
    /\ ret_to' = "none"
    /\ calls' = 0 /\ warnings' = 0 /\ sleeps' = <<>>
    /\ requests' = <<>> /\ pages_written' = <<>>
    /\ sent' = {}
    /\ start_dir' = out_dir
    /\ twin' = None
    /\ UNCHANGED <<out_dir, tvars>>

NextArchive == main \/ get_with_retry \/ NewRun

SpecArchive == InitArchive /\ [][NextArchive]_vars

\* ------------------------------------------- a run and its dry-run twin
\* SpecDryRun: a run, then the run with the same arguments against the same
\* remote rows but with the other --dry-run setting.
DryRunConfigs ==
    [cli_since : {Some(D1)}, env_since : {None},
     cli_until : {None}, env_until : {None},
     cli_years : {None}, env_years : {None}, now : {Now},
     limit : {None, Some(0), Some(1), Some(3)},
     page_size : {1, 2},
     max_retries : 0 .. RunMaxRetries,
     dry_run : BOOLEAN,
     T : 0 .. MaxRows]

InitDryRun ==
    /\ \E c \in DryRunConfigs : StartOfRun(c)
    /\ FirstRun

\* The script is started again with --dry-run added or removed.
Rerun ==
    /\ Finished
    /\ IsNone(twin)
    /\ run' = run + 1
    /\ twin' = Some([requests |-> requests, pc |-> pc, written |-> written,
                     page_idx |-> page_idx, dry_run |-> dry_run])
    /\ dry_run' = ~dry_run
    /\ start_dir' = out_dir
    /\ pc' = "start"
    /\ since_date' = None /\ until_date' = None
    /\ client' = FALSE
    /\ total_to_fetch' = 0
    /\ offset' = 0 /\ page_idx' = 0 /\ written' = 0 /\ this_limit' = 0
    /\ rows' = None
    /\ attempt' = 0
    /\ backoff' = BackoffStart
    /\ req' = CountRequest
    /\ ret_to' = "none"
    /\ calls' = 0 /\ warnings' = 0 /\ sleeps' = <<>>
    /\ requests' = <<>> /\ pages_written' = <<>>
    /\ sent' = {}
    /\ UNCHANGED <<cli_since, env_since, cli_until, env_until, cli_years,
                   env_years, now, limit, page_size, max_retries, T,
                   out_dir, tvars>>

NextDryRun == main \/ get_with_retry \/ Rerun

SpecDryRun == InitDryRun /\ [][NextDryRun]_vars

\* ------------------------------------------------ date resolution alone
\* SpecConfig: every combination of command-line and environment dates
\* (absent, two dates, unparseable text) and of years-back settings.
DateTexts == {None, Some(D1), Some(D2), Some(BadText)}
YearTexts == {None, Some(1), Some(2)}

ConfigConfigs ==
    [cli_since : DateTexts, env_since : DateTexts,
     cli_until : DateTexts, env_until : DateTexts,
     cli_years : YearTexts, env_years : YearTexts, now : {Now},
     limit : {None}, page_size : {1}, max_retries : {DefaultMaxRetries},
     dry_run : {FALSE}, T : {0}]

InitConfig ==
    /\ \E c \in ConfigConfigs : StartOfRun(c)
    /\ FirstRun

NextConfig == main_resolve_dates

SpecConfig == InitConfig /\ [][NextConfig]_vars

\* ---------------------------------------------- get_with_retry on its own
\* A caller such as tests/test_integration.py: one call with a page request,
\* for every max_retries in -1 .. MaxRetries.
TestLimits == {1, 3}

InitRetry ==
    /\ cli_since = None /\ env_since = None
    /\ cli_until = None /\ env_until = None
    /\ cli_years = None /\ env_years = None
    /\ now = 0
    /\ limit = None
    /\ page_size = 1
    /\ max_retries \in -1 .. MaxRetries
    /\ dry_run = FALSE
    /\ T \in {0, 3}
    /\ pc = "gwr"
    /\ since_date = 0 /\ until_date = 0
    /\ client = TRUE
    /\ total_to_fetch = 0
    /\ offset = 0 /\ page_idx = 0 /\ written = 0 /\ this_limit = 0
    /\ rows = None
    /\ attempt = 1
    /\ backoff = BackoffStart
    /\ req \in {PageRequest(l, 0) : l \in TestLimits}
    /\ ret_to = "test_returned"
    /\ calls = 0 /\ warnings = 0 /\ sleeps = <<>>
    /\ requests = <<>> /\ pages_written = <<>>
    /\ sent = {}
    /\ FirstRun

NextRetry == get_with_retry

SpecRetry == InitRetry /\ [][NextRetry]_vars

\* ======================================================================
\* process_311.py: the transform
\* ======================================================================
\*
\* Conventions.  A timestamp is a whole number of hours since
\* 2024-01-01T00:00 UTC (a Monday); the sample timestamps lie between
\* December 2023 and February 2024.  A raw file is [since, rows]; the raw
\* directory is the sequence of its files in the order of their names.  A
\* NaN / NaT / NULL cell is None.  Columns whose content no check reads
\* (descriptor, status, agency, ...) are kept as column names only.

\* ----------------------------------------------------------- constants

\* SLA_HOURS = float(os.getenv("SLA_HOURS", "24"))
SLA_HOURS == 24

\* precompute_summaries.py: --sla, default 24
sla == 24

\* America/New_York is five hours behind UTC in the sampled months.
NyUtcOffset == 5

HoursPerDay == 24
DaysPerWeek == 7

\* ------------------------------------------------------------- columns

\* SELECT_COLS: the columns of a raw table that ingestion selected.
RawColumns ==
    {"unique_key", "created_date", "closed_date",
     "resolution_action_updated_date", "agency", "complaint_type",
     "descriptor", "status", "borough", "incident_zip", "city",
     "open_data_channel_type", "latitude", "longitude"}

\* The columns engineer adds (lines 37-66).
Engineered ==
    {"response_hours", "within_sla", "created_dt", "date", "hour",
     "day_of_week", "dow_name", "month", "month_name", "is_holiday"}

\* keep (lines 82-86).
keep ==
    {"unique_key", "created_dt", "date", "hour", "day_of_week", "dow_name",
     "month", "month_name", "is_holiday", "borough", "complaint_type",
     "descriptor", "agency", "status", "open_data_channel_type",
     "response_hours", "within_sla", "latitude", "longitude",
     "incident_zip", "city"}

\* expected (lines 94-97).
expected ==
    {"unique_key", "created_dt", "borough", "complaint_type", "descriptor",
     "response_hours", "within_sla", "hour", "dow_name", "month_name"}

\* keep = [c for c in keep if c in df.columns]
CleanColumns(cols) == keep \cap (cols \cup Engineered)

\* ------------------------------------------------------------ load_raw

RECURSIVE Concat(_)
\* pd.concat of the files' tables, in the order of the sorted file names.
Concat(files) ==
    IF files = <<>> THEN <<>> ELSE files[1].rows \o Concat(Tail(files))

\* load_raw() reading the pages of the first since date only
load_raw_first_tag(files) ==
    IF files = <<>> THEN <<>>
    ELSE LET tag == files[1].since
             OfTag(f) == f.since = tag
         IN  Concat(SelectSeq(files, OfTag))
\* load_raw(): the table, or SystemExit when there is no raw file.
load_raw(files) == Concat(files)

\* ------------------------------------------------------------ engineer

\* closed_date.fillna(resolution_action_updated_date), the other way round
ResponseEndUpdatedFirst(r) ==
    IF ~IsNone(r.resolution_action_updated_date)
    THEN r.resolution_action_updated_date
    ELSE r.closed_date
\* response_end = df["closed_date"].fillna(df["resolution_action_updated_date"])
ResponseEnd(r) ==
    IF ~IsNone(r.closed_date)
    THEN r.closed_date
    ELSE r.resolution_action_updated_date

\* response_hours: (response_end - created_date) in hours, NaN without an end.
ResponseHours(r) ==
    LET e == ResponseEnd(r)
    IN  IF IsNone(e) THEN None ELSE Some(Val(e) - Val(r.created_date))

\* Series.lt: a NaN compares False.
lt(h, bound) == IF IsNone(h) THEN FALSE ELSE Val(h) < bound
\* Series.le: a NaN compares False.
le(h, bound) == IF IsNone(h) THEN FALSE ELSE Val(h) <= bound

\* tz_localize('UTC').tz_convert(America/New_York): the local wall clock.
tz_convert(t) == t - NyUtcOffset

\* .dt.date (days since 2024-01-01), .dt.hour, .dt.day_of_week (0 = Monday)
DateOf(local) == local \div HoursPerDay
HourOf(local) == local % HoursPerDay
DayOfWeek(local) == DateOf(local) % DaysPerWeek

\* .dt.year and .dt.month, for the days of December 2023 to February 2024.
YearMonth(local) ==
    LET d == DateOf(local)
    IN  IF d < 0 THEN <<2023, 12>>
        ELSE IF d < 31 THEN <<2024, 1>>
        ELSE <<2024, 2>>

\* A text is the sequence of its pieces, a piece being a word or a blank.
Blank == " "

RECURSIVE lstrip(_)
\* the text without its leading blanks
lstrip(s) ==
    IF s # <<>> /\ s[1] = Blank THEN lstrip(Tail(s)) ELSE s

RECURSIVE rstrip(_)
\* the text without its trailing blanks
rstrip(s) ==
    IF s # <<>> /\ s[Len(s)] = Blank
    THEN rstrip(SubSeq(s, 1, Len(s) - 1))
    ELSE s

\* df[c].astype("string").str.strip()
strip(s) == rstrip(lstrip(s))

\* One row of engineer's result.
CleanRow(r) ==
    LET dt == tz_convert(Val(r.created_date))
        rh == ResponseHours(r)
    IN  [unique_key     |-> r.unique_key,
         created_dt     |-> dt,
         date           |-> DateOf(dt),
         hour           |-> HourOf(dt),
         day_of_week    |-> DayOfWeek(dt),
         month          |-> YearMonth(dt)[2],
         borough        |-> strip(r.borough),
         complaint_type |-> strip(r.complaint_type),
         response_hours |-> rh,
         within_sla     |-> le(rh, SLA_HOURS)]

\* df[~df["created_date"].isna()]
HasCreated(r) == ~IsNone(r.created_date)

RECURSIVE MapClean(_)
MapClean(rs) ==
    IF rs = <<>> THEN <<>> ELSE <<CleanRow(rs[1])>> \o MapClean(Tail(rs))

\* The columns engineer indexes without a guard (lines 32, 36, 37).
EngineerReads ==
    {"created_date", "closed_date", "resolution_action_updated_date"}

\* engineer(df) for a table with the columns cols: KeyError (None) when a
\* column it reads is not there, else the rows with a creation timestamp,
\* with the new columns.
engineer(cols, df) ==
    IF EngineerReads \subseteq cols
    THEN Some(MapClean(SelectSeq(df, HasCreated)))
    ELSE None

\* ---------------------------------------------- main: the schema guard

\* missing = expected - set(clean.columns)
MissingColumns(cols) == expected \ CleanColumns(cols)

\* clean["unique_key"].is_unique, not looked at
IsUniqueUnchecked(t) == TRUE
\* clean["unique_key"].is_unique
is_unique(t) ==
    \A i, j \in DOMAIN t : i # j => t[i].unique_key # t[j].unique_key

\* clean["response_hours"].dropna().ge(0).all()
NonNegative(t) ==
    \A i \in DOMAIN t :
        IsNone(t[i].response_hours) \/ Val(t[i].response_hours) >= 0

\* the three asserts, all passing
ValidateNothing(cols, t) == "ok"
\* The three asserts of main (lines 98-102), in their order.
Validate(cols, t) ==
    IF MissingColumns(cols) # {} THEN "missing_columns"
    ELSE IF ~is_unique(t) THEN "duplicates"
    ELSE IF ~NonNegative(t) THEN "negative_hours"
    ELSE "ok"

\* ------------------------------------------------------ main: the writes

Range(t) == {t[i] : i \in DOMAIN t}

\* clean["year"], clean["month"]: the partition of a clean row.
PartitionOf(c) == YearMonth(c.created_dt)

PartitionKeys(t) == {PartitionOf(c) : c \in Range(t)}

\* clean.to_parquet(clean_path, index=False): the file is replaced.
to_parquet(cols, t) == Some([columns |-> cols, rows |-> t])

\* ds.write_dataset(..., partitioning=["year","month"],
\* existing_data_behavior="overwrite_or_ignore"): <year>/<month>/part-0 is
\* written for every partition of the table; other directories are left.
write_dataset(parts, t) ==
    [k \in DOMAIN parts \cup PartitionKeys(t) |->
        IF k \in PartitionKeys(t)
        THEN {c \in Range(t) : PartitionOf(c) = k}
        ELSE parts[k]]

\* process_311.main(): load_raw, engineer (which may raise KeyError), the
\* schema guard, the two writes.
transform_main(MaxT) ==
    /\ tpc = "idle"
    /\ truns < MaxT
    /\ truns' = truns + 1
    /\ IF raw = <<>>
       THEN /\ tpc' = "no_raw"
            /\ UNCHANGED <<clean, consolidated, partitions>>
       ELSE LET df == load_raw(raw)
                e  == engineer(raw_columns, df)
            IN  IF IsNone(e)
                THEN /\ tpc' = "key_error"
                     /\ UNCHANGED <<clean, consolidated, partitions>>
                ELSE LET c == Val(e)
                         v == Validate(raw_columns, c)
                     IN  /\ clean' = c
                         /\ tpc' = IF v = "ok" THEN "done" ELSE v
                         /\ IF v = "ok"
                            THEN /\ consolidated' =
                                      to_parquet(CleanColumns(raw_columns), c)
                                 /\ partitions' =
                                      IF pyarrow
                                      THEN write_dataset(partitions, c)
                                      ELSE partitions
                            ELSE UNCHANGED <<consolidated, partitions>>
    /\ UNCHANGED <<raw, raw_columns, summaries, pyarrow, ivars>>

\* Between two transform runs ingest_311.py has rewritten data/raw.
ingest_rewrites_raw(Dirs, MaxT) ==
    /\ tpc # "idle"
    /\ truns < MaxT
    /\ \E d \in Dirs :
          /\ raw' = d.files
          /\ raw_columns' = d.columns
    /\ tpc' = "idle"
    /\ UNCHANGED <<clean, consolidated, partitions, summaries, truns,
                   pyarrow, ivars>>

\* -------------------------------------------- precompute_summaries.py

\* parquet_scan('data/processed_part/*/*/part-*.parquet')
parquet_scan(parts) == UNION {parts[k] : k \in DOMAIN parts}

\* CASE WHEN response_hours <= sla THEN 1 ELSE 0 END: NULL falls to ELSE.
SqlWithin(c) ==
    IF IsNone(c.response_hours) THEN 0
    ELSE IF Val(c.response_hours) <= sla THEN 1 ELSE 0

\* CASE WHEN response_hours > sla THEN 1 ELSE 0 END: NULL falls to ELSE.
SqlBreach(c) ==
    IF IsNone(c.response_hours) THEN 0
    ELSE IF Val(c.response_hours) > sla THEN 1 ELSE 0

\* DuckDB reads created_dt, an instant, in the time zone of its session,
\* which is the host's: z hours behind UTC.  The hosts considered are one
\* in UTC and one in New York.
SessionZones == {0, NyUtcOffset}

\* created_dt on the wall clock of a session z hours behind UTC
SessionClock(c, z) == (c.created_dt + NyUtcOffset) - z

\* CAST(created_dt AS DATE), borough, complaint_type
DailyKey(c, z) ==
    <<DateOf(SessionClock(c, z)), c.borough, c.complaint_type>>

\* strftime(created_dt, '%A'), extract(hour from created_dt), borough,
\* complaint_type
DowKey(c, z) ==
    <<DayOfWeek(SessionClock(c, z)), HourOf(SessionClock(c, z)),
      c.borough, c.complaint_type>>

\* sql_daily: count(*) and avg(CASE ...) of each group; the average is kept
\* as its numerator (within) over tickets.
sql_daily(rs, z) ==
    [g \in {DailyKey(c, z) : c \in rs} |->
        LET grp == {c \in rs : DailyKey(c, z) = g}
        IN  [tickets |-> Cardinality(grp),
             within  |-> Cardinality({c \in grp : SqlWithin(c) = 1})]]

RECURSIVE SumBreaches(_, _)
\* sum over the daily rows of tickets * (1 - pct_within)
SumBreaches(daily, gs) ==
    IF gs = {} THEN 0
    ELSE LET g == CHOOSE x \in gs : TRUE
         IN  (daily[g].tickets - daily[g].within)
                 + SumBreaches(daily, gs \ {g})

RECURSIVE SumTickets(_, _)
\* sum over the daily rows of tickets
SumTickets(daily, gs) ==
    IF gs = {} THEN 0
    ELSE LET g == CHOOSE x \in gs : TRUE
         IN  daily[g].tickets + SumTickets(daily, gs \ {g})

\* df_ct: the daily rows grouped by complaint_type and borough; breach_rate
\* is breaches over tickets.
df_ct(daily) ==
    [k \in {<<g[3], g[2]>> : g \in DOMAIN daily} |->
        LET gs == {g \in DOMAIN daily : <<g[3], g[2]>> = k}
        IN  [tickets  |-> SumTickets(daily, gs),
             breaches |-> SumBreaches(daily, gs)]]

\* sql_dow: count(*) and avg(CASE ...) of each group; breach_rate is
\* breaches over tickets.
sql_dow(rs, z) ==
    [g \in {DowKey(c, z) : c \in rs} |->
        LET grp == {c \in rs : DowKey(c, z) = g}
        IN  [tickets  |-> Cardinality(grp),
             breaches |-> Cardinality({c \in grp : SqlBreach(c) = 1})]]

\* The script: the three summaries, computed from the partitioned dataset
\* on a host of some time zone (source is the set of rows it scanned,
\* session the zone of the host).
precompute_summaries ==
    /\ partitions # EmptyDir
    /\ \E z \in SessionZones :
          LET rs == parquet_scan(partitions)
              daily == sql_daily(rs, z)
          IN  summaries' = Some([source  |-> rs,
                                 session |-> z,
                                 daily   |-> daily,
                                 ct      |-> df_ct(daily),
                                 dow     |-> sql_dow(rs, z)])
    /\ UNCHANGED <<raw, raw_columns, clean, tpc, consolidated, partitions,
                   truns, pyarrow, ivars>>

\* ------------------------------------------------- the raw directory

\* Sample creation timestamps: 2024-01-01 03:00 UTC (still 2023 in New
\* York), 2024-01-02 16:00 UTC and 2024-02-02 16:00 UTC.
SampleHours == <<3, 40, 784>>
H0 == SampleHours[1]
HJan == SampleHours[2]
HFeb == SampleHours[3]

\* A page has one column for every key of its records (from_records).  A
\* None cell is a key the record did not have, or a key whose value was
\* null or a text that to_datetime could not read: closed_date and
\* resolution_action_updated_date can be absent from the raw table only
\* when every row has None there.  Every fetched row has a created_date
\* key (the query selects on it).
EmptyColumns(rs) ==
    {c \in {"closed_date", "resolution_action_updated_date"} :
        \A i \in DOMAIN rs : IsNone(rs[i][c])}

\* The keys a remote may leave out of a record that has no value there.
OmittedKeys == SUBSET {"closed_date", "resolution_action_updated_date"}

\* The columns of the raw table of rows rs when the remote leaves the keys
\* omit out of the records without a value there: a column is absent when
\* no record had the key.  descriptor is among the columns when some
\* record had it.
ColumnsOf(rs, descriptor, omit) ==
    (RawColumns \ (omit \cap EmptyColumns(rs)))
        \ (IF descriptor THEN {} ELSE {"descriptor"})

RECURSIVE Pages(_, _)
\* The files ingestion leaves for the rows rs with pages of n rows.
Pages(rs, n) ==
    IF rs = <<>> THEN <<>>
    ELSE LET m == Min(n, Len(rs))
         IN  <<[since |-> D1, rows |-> SubSeq(rs, 1, m)]>>
                 \o Pages(SubSeq(rs, m + 1, Len(rs)), n)

\* The sequences of 0 .. n elements of S.
SeqsUpTo(S, n) == UNION {[1 .. k -> S] : k \in 0 .. n}

\* ingest_311.py is not running; its directory is described by raw.
IngestionIdle ==
    /\ StartOfRun([cli_since |-> None, env_since |-> None,
                   cli_until |-> None, env_until |-> None,
                   cli_years |-> None, env_years |-> None, now |-> Now,
                   limit |-> None, page_size |-> 1,
                   max_retries |-> DefaultMaxRetries, dry_run |-> FALSE,
                   T |-> 0])
    /\ out_dir = EmptyDir /\ start_dir = EmptyDir
    /\ twin = None /\ run = 1

\* Nothing is published yet and process_311.py is about to run.
NothingPublished ==
    /\ clean = <<>>
    /\ tpc = "idle"
    /\ consolidated = None
    /\ partitions = EmptyDir
    /\ summaries = None
    /\ truns = 0

\* ------------------------------------------------ engineer on any rows
\* SpecEngineer: one transform run on a raw directory of up to MaxRawRows
\* rows, whose timestamps are absent or around one creation time: closed an
\* hour before it, exactly SLA_HOURS after it, or an hour later still;
\* last updated two hours after it.
EngineerRows ==
    [unique_key : {1, 2},
     created_date : {None, Some(H0)},
     closed_date : {None, Some(H0 - 1), Some(H0 + SLA_HOURS),
                    Some(H0 + SLA_HOURS + 1)},
     resolution_action_updated_date : {None, Some(H0 + 2)},
     borough : {<<Blank, "BRONX">>},
     complaint_type : {<<"Noise">>}]

EngineerDirs ==
    {[files |-> Pages(rs, n), columns |-> ColumnsOf(rs, TRUE, o)] :
        rs \in SeqsUpTo(EngineerRows, MaxRawRows), n \in {1, 2},
        o \in OmittedKeys}

InitEngineer ==
    /\ IngestionIdle
    /\ \E d \in EngineerDirs : raw = d.files /\ raw_columns = d.columns
    /\ NothingPublished
    /\ pyarrow = TRUE

NextEngineer == transform_main(1)

SpecEngineer == InitEngineer /\ [][NextEngineer]_vars

\* ------------------------------------- transform runs, one after another
\* SpecPipeline: up to MaxTRuns runs of process_311.py, the raw directory
\* rewritten by ingestion in between, and precompute_summaries.py run at
\* any time.  The raw rows are taken from six samples; a closed ticket
\* was last updated an hour after its closure, an open one never.
Row(k, created, closed) ==
    [unique_key |-> k, created_date |-> created, closed_date |-> closed,
     resolution_action_updated_date |->
         IF IsNone(closed) THEN None ELSE Some(Val(closed) + 1),
     borough |-> <<"BRONX">>, complaint_type |-> <<"Noise">>]

\* The row r as the remote gives it with blanks around its texts.
Padded(r) ==
    [r EXCEPT !.borough = <<Blank>> \o @, !.complaint_type = @ \o <<Blank>>]

SampleRows ==
    << Row(1, Some(HJan), Some(HJan + 4)),          \* answered in 4 hours
       Row(2, Some(HJan), None),                    \* never answered
       Padded(Row(3, Some(HJan), Some(HJan + SLA_HOURS + 6))),  \* a breach
       Row(2, Some(HFeb), Some(HFeb + SLA_HOURS + 6)),   \* a breach, February
       Row(1, None, Some(HJan + 4)),                \* no creation timestamp
       Row(1, Some(HFeb), Some(HFeb - 1)) >>        \* closed before created

\* The tables of 0 .. MaxRawRows sample rows, in the order of the samples.
SampleTables ==
    {[i \in DOMAIN ix |-> SampleRows[ix[i]]] :
        ix \in {q \in SeqsUpTo(DOMAIN SampleRows, MaxRawRows) :
                   \A i \in 1 .. Len(q) - 1 : q[i] <= q[i + 1]}}

\* Some row had a descriptor, or none had.
PipelineDirs ==
    {[files |-> Pages(rs, 2), columns |-> ColumnsOf(rs, d, o)] :
        rs \in SampleTables, d \in BOOLEAN, o \in OmittedKeys}

InitPipeline ==
    /\ IngestionIdle
    /\ \E d \in PipelineDirs : raw = d.files /\ raw_columns = d.columns
    /\ NothingPublished
    /\ pyarrow \in BOOLEAN

NextPipeline ==
    \/ transform_main(MaxTRuns)
    \/ ingest_rewrites_raw(PipelineDirs, MaxTRuns)
    \/ precompute_summaries

SpecPipeline == InitPipeline /\ [][NextPipeline]_vars

\* ------------------------------ pages of two runs in the raw directory
\* SpecOverlap: the raw directory holds the pages of a run with since date
\* D1 and, after them in the order of the names, the pages of a run with
\* since date D2; each run fetched up to MaxRawRows sample rows, so a
\* record may be in the pages of both.  One transform run.
RECURSIVE PagesOf(_, _, _)
\* The files a run with since date tag leaves for rows rs, n rows a page.
PagesOf(tag, rs, n) ==
    IF rs = <<>> THEN <<>>
    ELSE LET m == Min(n, Len(rs))
         IN  <<[since |-> tag, rows |-> SubSeq(rs, 1, m)]>>
                 \o PagesOf(tag, SubSeq(rs, m + 1, Len(rs)), n)

OverlapDirs ==
    {[files |-> PagesOf(D1, a, 1) \o PagesOf(D2, b, 1),
      columns |-> ColumnsOf(a \o b, d, o)] :
        a \in SampleTables, b \in SampleTables, d \in BOOLEAN,
        o \in OmittedKeys}

InitOverlap ==
    /\ IngestionIdle
    /\ \E d \in OverlapDirs : raw = d.files /\ raw_columns = d.columns
    /\ NothingPublished
    /\ pyarrow = TRUE

NextOverlap == transform_main(1)

SpecOverlap == InitOverlap /\ [][NextOverlap]_vars

\* ======================================================================
\* Properties
\* ======================================================================

RECURSIVE SumRows(_)
SumRows(ps) == IF ps = <<>> THEN 0 ELSE ps[1].rows + SumRows(Tail(ps))

IsPage(r) == r.kind = "page"
PageReqs == SelectSeq(requests, IsPage)
IsCount(r) == r.kind = "count"
CountReqs == SelectSeq(requests, IsCount)

\* C1 (as claimed): when a run that writes its pages ends normally, the
\* row counts of the pages it wrote add up to min(T, max_rows), or to T
\* when --limit is unset.  Stated for max_retries >= 1 and a cap >= 0.
C1_RowsWrittenAsClaimed ==
    (pc = "done" /\ ~dry_run /\ max_retries >= 1
        /\ (IsNone(limit) \/ Val(limit) >= 0))
    => SumRows(pages_written) =
          (IF IsNone(limit) THEN T ELSE Min(T, Val(limit)))

\* C2 (as claimed): a call that returns after k failures made k + 1 calls,
\* logged k warnings, with k < max_retries, and returns what client.get
\* returned; a call that raises made exactly max_retries calls; and the
\* function never returns without a result of client.get.
C2_RetryCountsAsClaimed ==
    /\ (pc = "test_returned" /\ ~IsNone(rows)) =>
          /\ calls = warnings + 1
          /\ warnings < max_retries
          /\ rows = Some(ClientGet(req, T))
    /\ pc = "raised" => (calls = max_retries /\ warnings = max_retries)
    /\ pc = "test_returned" => ~IsNone(rows)

\* C3: the n-th sleep of a call lasts min(2^(n-1), 30); every sleep is
\* followed by another attempt, so an ended call that made c > 0 attempts
\* slept c - 1 times (nothing after the last failure or after a success).
C3_BackoffSchedule ==
    /\ \A n \in 1 .. Len(sleeps) : sleeps[n] = Min(2 ^ (n - 1), BackoffCap)
    /\ pc = "gwr" => Len(sleeps) = calls
    /\ (pc # "gwr" /\ calls > 0) => Len(sleeps) = calls - 1
    /\ calls = 0 => sleeps = <<>>

\* C3 witness: a call that failed 8 times slept 1, 2, 4, 8, 16, 30, 30 and
\* raised without sleeping again.
C3_Witness ==
    /\ pc = "raised"
    /\ calls = 8
    /\ sleeps = <<1, 2, 4, 8, 16, 30, 30>>

\* The step writes the file named f.
Wrote(f) ==
    /\ Len(pages_written') = Len(pages_written) + 1
    /\ pages_written'[Len(pages_written')].name = f

\* The step leaves the file named f as it is.
Kept(f) ==
    /\ f \in DOMAIN out_dir'
    /\ out_dir'[f] = out_dir[f]
    /\ ~Wrote(f)

\* C4 (as claimed): no step of any run overwrites or changes a page
\* artifact that is in the output directory.
C4_AppendOnlyAsClaimed == [][\A f \in DOMAIN out_dir : Kept(f)]_vars

\* C4 (amended): a page artifact is overwritten or changed only by a run
\* with the same since date as the run that wrote it; a run with another
\* since date leaves it as it is.
C4_AppendOnlyAcrossWindows ==
    [][\A f \in DOMAIN out_dir :
          (IsNone(since_date) \/ out_dir[f].since # Val(since_date))
             => Kept(f)]_vars

\* C4 witness: the second run wrote its page 1 while page 1 of a run with
\* another since date is in the directory.
C4_Witness ==
    /\ run = 2
    /\ Len(pages_written) >= 1
    /\ \E f \in DOMAIN out_dir :
          /\ out_dir[f].since # Val(since_date)
          /\ SubSeq(f, 2, Len(f)) = Pad(1)

\* C5: the pages written by one run carry the indices 1, 2, ..., n in the
\* order of writing, and no two of them have the same file name.
C5_PageIndices ==
    /\ \A i \in 1 .. Len(pages_written) :
          /\ pages_written[i].idx = i
          /\ pages_written[i].name \in DOMAIN out_dir
    /\ \A i, j \in 1 .. Len(pages_written) :
          i # j => pages_written[i].name # pages_written[j].name

\* C5 witness: a finished run that wrote three pages.
C5_Witness == pc = "done" /\ Len(pages_written) = 3

\* C6 (as claimed): when --limit is given, no request is a count query;
\* when it is not, the first request is the count query and it is the only
\* count query.
C6_CountQueryAsClaimed ==
    /\ ~IsNone(limit) => CountReqs = <<>>
    /\ (IsNone(limit) /\ client) =>
          /\ Len(CountReqs) = 1
          /\ requests[1] = CountRequest

\* C7: a resolved range with since after until ends the run with the
\* configuration error, the client not constructed, no request sent, no
\* call made and no page written.
C7_FailFast ==
    (~IsNone(since_date) /\ ~IsNone(until_date)
        /\ Val(since_date) > Val(until_date))
    => /\ pc = "config_error"
       /\ ~client
       /\ requests = <<>>
       /\ calls = 0
       /\ pages_written = <<>>
       /\ out_dir = EmptyDir

\* C7 witness: the run ended with the configuration error on since > until.
C7_Witness ==
    /\ pc = "config_error"
    /\ Val(since_date) > Val(until_date)

\* C8: each bound is the command-line date when given, else the
\* environment's when set, else the default (now - 365 * YEARS_BACK days
\* for since, now for until); a run that got past parsing has both.
C8_Precedence ==
    /\ ~IsNone(since_date) =>
          /\ ~IsNone(cli_since) => since_date = cli_since
          /\ (IsNone(cli_since) /\ ~IsNone(env_since)) =>
                since_date = env_since
          /\ (IsNone(cli_since) /\ IsNone(env_since)) =>
                Val(since_date) = now - DaysPerYear * YEARS_BACK(env_years)
    /\ ~IsNone(until_date) =>
          /\ ~IsNone(cli_until) => until_date = cli_until
          /\ (IsNone(cli_until) /\ ~IsNone(env_until)) =>
                until_date = env_until
          /\ (IsNone(cli_until) /\ IsNone(env_until)) =>
                Val(until_date) = now
    /\ pc \in {"dates_ok", "config_error"} =>
          (~IsNone(since_date) /\ ~IsNone(until_date))

\* C8 witness: since given on the command line and, differently, in the
\* environment; until only in the environment.
C8_Witness ==
    /\ pc = "dates_ok"
    /\ ~IsNone(cli_since) /\ ~IsNone(env_since) /\ cli_since # env_since
    /\ IsNone(cli_until) /\ ~IsNone(env_until)

\* C9 (as claimed): with no since date given, the window starts
\* 365 * (--years value) days before now.
C9_YearsFlagAsClaimed ==
    (~IsNone(since_date) /\ IsNone(cli_since) /\ IsNone(env_since))
    => Val(since_date) =
          now - DaysPerYear * args_years(cli_years, env_years)

\* C10: the first page request has offset 0 and each later one starts
\* where the previous one's range [offset, offset + limit) ends.
C10_ContiguousOffsets ==
    /\ PageReqs # <<>> => PageReqs[1].offset = 0
    /\ \A i \in 1 .. Len(PageReqs) - 1 :
          PageReqs[i + 1].offset = PageReqs[i].offset + PageReqs[i].limit

\* C10 witness: a second page request that asks for the remaining quota,
\* less than page_size, at the offset where the first page ended.
C10_Witness ==
    /\ Len(PageReqs) = 2
    /\ PageReqs[2].limit < page_size
    /\ PageReqs[2].offset = page_size

\* The parameters a SoQL query may carry.
QueryParams == {"select", "where", "order", "limit", "offset"}

\* C11: every parameter that a client.get call of the run carried is a
\* query parameter: neither timeout nor max_retries reaches client.get.
C11_OnlyQueryParams ==
    /\ sent \subseteq QueryParams
    /\ "timeout" \notin sent
    /\ "max_retries" \notin sent

\* C11 witness: a finished run whose count and page calls carried all five
\* query parameters.
C11_Witness ==
    /\ pc = "done"
    /\ Len(CountReqs) = 1 /\ Len(PageReqs) >= 2
    /\ sent = QueryParams

\* C12: a dry run leaves the output directory as it found it and writes no
\* page; its requests agree, one by one, with those of the run that differs
\* only in --dry-run, and when both end normally they sent the same
\* requests and stopped at the same point.
C12_DryRunSameRequests ==
    /\ dry_run => (out_dir = start_dir /\ pages_written = <<>>)
    /\ ~IsNone(twin) =>
          /\ \A i \in 1 .. Min(Len(requests), Len(Val(twin).requests)) :
                requests[i] = Val(twin).requests[i]
          /\ (pc = "done" /\ Val(twin).pc = "done") =>
                /\ requests = Val(twin).requests
                /\ written = Val(twin).written
                /\ page_idx = Val(twin).page_idx

\* C12 witness: a normal run wrote two or more pages, and its dry-run twin
\* has ended after the same requests.
C12_Witness ==
    /\ ~IsNone(twin) /\ dry_run
    /\ pc = "done" /\ Val(twin).pc = "done"
    /\ Len(PageReqs) >= 3
    /\ Cardinality(DOMAIN out_dir) >= 2

\* The run was aborted by a page fetch that used up its retries.
PageFetchExhausted == pc = "raised" /\ req.kind = "page"

\* Pages 1 .. page_idx of the run are on disk as written.
PagesOnDisk ==
    /\ Len(pages_written) = page_idx
    /\ \A i \in 1 .. page_idx :
          /\ pages_written[i].idx = i
          /\ pages_written[i].name \in DOMAIN out_dir
          /\ out_dir[pages_written[i].name].rows = pages_written[i].rows
          /\ out_dir[pages_written[i].name].since = Val(since_date)

\* C13 (as claimed): when the fetch of page k = page_idx + 1 exhausts its
\* retries in a run that writes, pages 1 .. k-1 are on disk as written, no
\* artifact for page k exists, and every file that was in the directory
\* before the run is unchanged.
C13_AbortAsClaimed ==
    (PageFetchExhausted /\ ~dry_run) =>
        /\ PagesOnDisk
        /\ FileName(Val(since_date), page_idx + 1) \notin DOMAIN out_dir
        /\ \A f \in DOMAIN start_dir :
              f \in DOMAIN out_dir /\ out_dir[f] = start_dir[f]

\* C13 (amended): ... the run has written no artifact for page k (a file of
\* that name is there only as an earlier run left it), and every file that
\* was in the directory before the run under another since date is
\* unchanged; a dry run has written nothing at all.
C13_AbortKeepsOtherWindows ==
    PageFetchExhausted =>
        /\ ~dry_run => PagesOnDisk
        /\ dry_run => (pages_written = <<>> /\ out_dir = start_dir)
        /\ \A p \in DOMAIN out_dir \ DOMAIN start_dir :
              \E i \in 1 .. page_idx : pages_written[i].name = p
        /\ LET k == FileName(Val(since_date), page_idx + 1)
           IN  k \in DOMAIN out_dir =>
                  (k \in DOMAIN start_dir /\ out_dir[k] = start_dir[k])
        /\ \A f \in DOMAIN start_dir :
              start_dir[f].since # Val(since_date) =>
                  (f \in DOMAIN out_dir /\ out_dir[f] = start_dir[f])

\* C13 witness: the second run wrote page 1 and was aborted at page 2 while
\* a page of a run with another since date was in the directory.
C13_Witness ==
    /\ run = 2
    /\ PageFetchExhausted /\ ~dry_run
    /\ page_idx >= 1
    /\ \E f \in DOMAIN start_dir : start_dir[f].since # Val(since_date)

\* engineer has returned its table in clean.
EngineerReturned == tpc \notin {"idle", "no_raw", "key_error"}

\* The raw rows that engineer keeps, in their order: row i of clean is made
\* from row i of these.
KeptRaw == SelectSeq(load_raw(raw), HasCreated)

\* C14: in every row of engineer's table within_sla is true exactly when
\* response_hours is not null and at most SLA_HOURS; response_hours equal
\* to SLA_HOURS is within the SLA.
C14_WithinSlaIff ==
    EngineerReturned =>
        \A i \in DOMAIN clean :
            /\ clean[i].within_sla \in BOOLEAN
            /\ clean[i].within_sla <=>
                  (/\ ~IsNone(clean[i].response_hours)
                   /\ Val(clean[i].response_hours) <= SLA_HOURS)

\* C14 witness: a table with a row answered in exactly SLA_HOURS, within
\* the SLA, and a row answered an hour later, not within it.
C14_Witness ==
    /\ EngineerReturned
    /\ \E i, j \in DOMAIN clean :
          /\ clean[i].response_hours = Some(SLA_HOURS)
          /\ clean[i].within_sla
          /\ clean[j].response_hours = Some(SLA_HOURS + 1)
          /\ ~clean[j].within_sla

\* C15 (as claimed): in every row of engineer's table whose response_hours
\* is null, within_sla is null too, neither true nor false.
C15_NullWithinSlaAsClaimed ==
    EngineerReturned =>
        \A i \in DOMAIN clean :
            IsNone(clean[i].response_hours) =>
                clean[i].within_sla \notin BOOLEAN

\* C17: response_hours of a row is null exactly when the raw row has
\* neither a closure nor a last-update timestamp; with a closure timestamp
\* it is closure minus creation, and only without one it is last update
\* minus creation.
C17_ResponseEnd ==
    EngineerReturned =>
        /\ Len(clean) = Len(KeptRaw)
        /\ \A i \in DOMAIN clean :
              LET r == KeptRaw[i]
                  h == clean[i].response_hours
              IN  /\ IsNone(h) <=>
                        (/\ IsNone(r.closed_date)
                         /\ IsNone(r.resolution_action_updated_date))
                  /\ ~IsNone(r.closed_date) =>
                        h = Some(Val(r.closed_date) - Val(r.created_date))
                  /\ (/\ IsNone(r.closed_date)
                      /\ ~IsNone(r.resolution_action_updated_date)) =>
                        h = Some(Val(r.resolution_action_updated_date)
                                    - Val(r.created_date))

\* C17 witness: a row with both timestamps, different, and a row with a
\* last-update timestamp only.
C17_Witness ==
    /\ EngineerReturned
    /\ \E i, j \in DOMAIN clean :
          /\ ~IsNone(KeptRaw[i].closed_date)
          /\ ~IsNone(KeptRaw[i].resolution_action_updated_date)
          /\ KeptRaw[i].closed_date
                # KeptRaw[i].resolution_action_updated_date
          /\ ~IsNone(clean[i].response_hours)
          /\ IsNone(KeptRaw[j].closed_date)
          /\ ~IsNone(clean[j].response_hours)

\* The rows of rs that have a response time.
Eligible(rs) == {c \in rs : ~IsNone(c.response_hours)}

\* The rows of rs answered within the SLA, and those answered later.
Met(rs) == {c \in Eligible(rs) : Val(c.response_hours) <= sla}
Breached(rs) == {c \in Eligible(rs) : Val(c.response_hours) > sla}

\* C16 (as claimed): in the three summaries the rate of a group is the
\* number of its rows with a response time that meet the condition over
\* the number of its rows with a response time (compared by cross
\* multiplication, for the groups that have such a row).
C16_RatesAsClaimed ==
    ~IsNone(summaries) =>
        LET s == Val(summaries)
        IN  /\ \A g \in DOMAIN s.daily :
                  LET grp == {c \in s.source : DailyKey(c, s.session) = g}
                  IN  Eligible(grp) # {} =>
                         s.daily[g].within * Cardinality(Eligible(grp))
                            = Cardinality(Met(grp)) * s.daily[g].tickets
            /\ \A k \in DOMAIN s.ct :
                  LET grp == {c \in s.source :
                                 <<c.complaint_type, c.borough>> = k}
                  IN  Eligible(grp) # {} =>
                         s.ct[k].breaches * Cardinality(Eligible(grp))
                            = Cardinality(Breached(grp)) * s.ct[k].tickets
            /\ \A g \in DOMAIN s.dow :
                  LET grp == {c \in s.source : DowKey(c, s.session) = g}
                  IN  Eligible(grp) # {} =>
                         s.dow[g].breaches * Cardinality(Eligible(grp))
                            = Cardinality(Breached(grp)) * s.dow[g].tickets

\* A step that is one run of process_311.py.
TransformRun == tpc = "idle" /\ tpc' # "idle"

\* The run stopped at one of the three asserts.
ValidationFailures == {"missing_columns", "duplicates", "negative_hours"}

\* The run left the published datasets alone.
NothingWritten == consolidated' = consolidated /\ partitions' = partitions

\* Two rows of the table rs share their unique_key.
SharedKey(rs) ==
    \E i, j \in DOMAIN rs : i # j /\ rs[i].unique_key = rs[j].unique_key

\* C18 (as claimed): a run on a raw input in which two rows share their
\* unique_key fails at validation and writes neither dataset.
C18_DuplicatesAsClaimed ==
    [][(TransformRun /\ SharedKey(load_raw(raw))) =>
          (tpc' \in ValidationFailures /\ NothingWritten)]_vars

\* Where a run on a raw table with a duplicate key stops: in engineer with
\* a KeyError when a column it reads is absent, else at the column check
\* when an expected column is missing, else at the unique_key check.
AbortPoint ==
    IF ~(EngineerReads \subseteq raw_columns) THEN "key_error"
    ELSE IF ~(expected \subseteq CleanColumns(raw_columns))
         THEN "missing_columns"
         ELSE "duplicates"

\* C18 (amended): a run on a raw input in which two rows that both have a
\* creation timestamp share their unique_key fails before any write and
\* writes neither dataset: at the unique_key check of validation, or
\* before it at the column check or with a KeyError in engineer.
C18_DuplicatesWithCreated ==
    [][(TransformRun /\ SharedKey(KeptRaw)) =>
          (tpc' = AbortPoint /\ NothingWritten)]_vars

\* C18 witness: a first run stopped at the unique_key check, two rows of
\* its table sharing the key, with nothing published.
C18_Witness ==
    /\ tpc = "duplicates"
    /\ SharedKey(KeptRaw)
    /\ Len(clean) >= 2
    /\ consolidated = None /\ partitions = EmptyDir

\* The raw directory holds a table that engineer returns a table for and
\* that fails one of the three checks.
FailsSchemaCheck ==
    /\ raw # <<>>
    /\ EngineerReads \subseteq raw_columns
    /\ \/ ~(expected \subseteq CleanColumns(raw_columns))
       \/ SharedKey(KeptRaw)
       \/ \E i \in DOMAIN KeptRaw :
             /\ ~IsNone(ResponseEnd(KeptRaw[i]))
             /\ Val(ResponseEnd(KeptRaw[i])) < Val(KeptRaw[i].created_date)

\* C19: a run whose table fails one of the three checks stops at an assert
\* and leaves the consolidated dataset and every partition as they were;
\* so does every run that does not end in success, a run that engineer
\* ended with a KeyError included.
C19_FailureWritesNothing ==
    [][/\ (TransformRun /\ FailsSchemaCheck) =>
             (tpc' \in ValidationFailures /\ NothingWritten)
       /\ (TransformRun /\ tpc' # "done") => NothingWritten]_vars

\* C19 witness: a run stopped by a negative response_hours, which engineer
\* did not clamp, while the datasets of an earlier run are published.
C19_Witness ==
    /\ tpc = "negative_hours"
    /\ \E i \in DOMAIN clean :
          /\ ~IsNone(clean[i].response_hours)
          /\ Val(clean[i].response_hours) < 0
    /\ ~IsNone(consolidated)
    /\ partitions # EmptyDir

\* C20 (as claimed): after a successful run that wrote both datasets, of a
\* table with rows, the records under the partition root are the records
\* of the consolidated dataset.
C20_SameRecordsAsClaimed ==
    (pyarrow /\ tpc = "done" /\ clean # <<>>) =>
        parquet_scan(partitions) = Range(Val(consolidated).rows)

\* C21 (as claimed): for every max_retries, a call of get_with_retry that
\* has ended made at least one client.get call, and when it returned to
\* its caller it returned what a client.get call returned.
C21_AtLeastOneCallAsClaimed ==
    pc # "gwr" =>
        /\ calls >= 1
        /\ pc = "test_returned" =>
              (~IsNone(rows) /\ rows = Some(ClientGet(req, T)))

\* C22 (as claimed): with --limit L >= 0 the rows written never exceed L,
\* and a page request in flight asks for at most L minus the rows written.
C22_LimitCapAsClaimed ==
    (~IsNone(limit) /\ Val(limit) >= 0) =>
        /\ written <= Val(limit)
        /\ (pc = "gwr" /\ req.kind = "page") =>
              req.limit <= Val(limit) - written

\* C23: the step on which client.get raises an error that is no
\* RequestException ends the call: it is one more attempt, with no warning
\* logged, no sleep and no change of the backoff or of the attempt number;
\* and nothing follows it.
C23_OtherErrorPropagates ==
    [][/\ (pc = "gwr" /\ pc' = "error") =>
             /\ calls' = calls + 1
             /\ calls' = attempt
             /\ warnings' = warnings
             /\ sleeps' = sleeps
             /\ attempt' = attempt
             /\ backoff' = backoff
             /\ rows' = rows
       /\ pc = "error" => (pc' = "error" /\ calls' = calls)]_vars

\* C23 witness: the third attempt raised such an error after two failures
\* that were retried: two warnings and two sleeps, none for the error.
C23_Witness ==
    /\ pc = "error"
    /\ calls = 3
    /\ warnings = 2
    /\ sleeps = <<1, 2>>
    /\ max_retries > 3

\* Two pages of runs with different since dates hold a row of the same
\* unique_key, both rows with a creation timestamp.
CrossTagDuplicate ==
    \E f, g \in DOMAIN raw :
        /\ raw[f].since # raw[g].since
        /\ \E i \in DOMAIN raw[f].rows, j \in DOMAIN raw[g].rows :
              /\ raw[f].rows[i].unique_key = raw[g].rows[j].unique_key
              /\ HasCreated(raw[f].rows[i])
              /\ HasCreated(raw[g].rows[j])

RECURSIVE KeptCount(_)
\* The rows with a creation timestamp in the files, counted file by file.
KeptCount(files) ==
    IF files = <<>> THEN 0
    ELSE Len(SelectSeq(files[1].rows, HasCreated)) + KeptCount(Tail(files))

\* C24 (as claimed): a run on a raw directory in which the pages of two
\* since dates hold the same record stops at the unique_key check and
\* writes nothing.
C24_OverlapAbortsAsClaimed ==
    [][(TransformRun /\ CrossTagDuplicate) =>
          (tpc' = "duplicates" /\ NothingWritten)]_vars

\* C24 (amended): the table engineer returns has one row for every raw row
\* with a creation timestamp in any page of any since date; a run on a raw
\* directory in which the pages of two since dates hold the same record
\* writes nothing and stops in engineer with a KeyError when a column
\* engineer reads is absent, else at the column check when an expected
\* column is missing, else at the unique_key check.
C24_OverlapAborts ==
    [][/\ (TransformRun /\ raw # <<>> /\ tpc' # "key_error") =>
             Len(clean') = KeptCount(raw)
       /\ (TransformRun /\ CrossTagDuplicate) =>
             /\ NothingWritten
             /\ tpc' = IF ~(EngineerReads \subseteq raw_columns)
                       THEN "key_error"
                       ELSE IF expected \subseteq CleanColumns(raw_columns)
                            THEN "duplicates"
                            ELSE "missing_columns"]_vars

\* C24 witness: a run stopped at the unique_key check on a directory with
\* the same record in a page of each since date, all columns present.
C24_Witness ==
    /\ tpc = "duplicates"
    /\ CrossTagDuplicate
    /\ \E f, g \in DOMAIN raw :
          /\ raw[f].since = D1 /\ raw[g].since = D2
          /\ raw[f].rows = raw[g].rows
    /\ EngineerReads \subseteq raw_columns
    /\ expected \subseteq CleanColumns(raw_columns)
    /\ Len(clean) = KeptCount(raw)
    /\ consolidated = None /\ partitions = EmptyDir

====
